---- MODULE Spec2Model ----
(***************************************************************************)
(* A model of screwsat (src/src/lib.rs): a small CDCL SAT solver.          *)
(*                                                                         *)
(* The Solver struct is modelled field by field.  Rust indices are         *)
(* 0-based: variables are 0..n-1, clause ids are 0..clauses.len()-1 and    *)
(* trail positions are 0..que.len()-1; the TLA+ sequences that hold        *)
(* clauses and the trail are 1-based, so At(seq, i) reads Rust's seq[i].   *)
(* Option<T> is the empty sequence (None) or a one-element sequence        *)
(* (Some(x)).  A literal is the pair <<var, sign>>.                        *)
(*                                                                         *)
(* solve is a loop around propagate / analyze / decide.  The model has one *)
(* action per iteration of each loop whose trip count is not fixed on      *)
(* entry (the loop of solve, the while loop of propagate, the loop of      *)
(* analyze); the for loops over a clause or a watcher list are folded      *)
(* into the iteration that runs them.                                      *)
(***************************************************************************)
EXTENDS Integers, Sequences, FiniteSets, TLC

\* Bounds of the formulas handed to Solver::new: at most MaxClauses clauses;
\* over up to NumVars variables every clause of up to MaxLen literals, in any
\* order and with repetitions; over WideVars variables the clauses that list
\* distinct variables in increasing order.
NumVars == 2
MaxClauses == 3
MaxLen == 2
WideVars == 3
\* Bound of a run: the loop iterations (of solve, propagate and analyze
\* together) that a call of solve may take.
MaxSteps == 40

VARIABLES
    formula,          \* the clause list given to new (never changed afterwards)
    n, assigns, clauses, watchers, reason, level, que, head,   \* struct Solver
    msec,             \* the argument of solve
    pc,               \* position inside solve
    result,           \* what solve returned, None while it runs
    confl,            \* propagate's return value / analyze's confl
    que_tail, checked_vars, current_level, learnt_clause,
    backtrack_level, same_level_cnt,                           \* locals of analyze
    steps,            \* loop iterations run since solve was entered
    last_assign       \* per variable, the value enqueue gave it last (None: never)

vars == <<formula, n, assigns, clauses, watchers, reason, level, que, head,
          msec, pc, result, confl, que_tail, checked_vars, current_level,
          learnt_clause, backtrack_level, same_level_cnt, steps, last_assign>>

-----------------------------------------------------------------------------
\* Option<T>
None == <<>>
Some(x) == <<x>>
Unwrap(o) == o[1]

\* Rust's 0-based indexing of a Vec / VecDeque.
At(seq, i) == seq[i + 1]

\* VecDeque::back
Back(q) == q[Len(q)]

Var(k) == 0 .. (k - 1)
Lit(k) == Var(k) \X BOOLEAN

Max(a, b) == IF a >= b THEN a ELSE b

\* <[_]>::swap
Swap(seq, i, j) == [seq EXCEPT ![i + 1] = seq[j + 1], ![j + 1] = seq[i + 1]]

\* The solver's state as one value, so that the steps are functions of it.
Self ==
    [n |-> n, assigns |-> assigns, clauses |-> clauses, watchers |-> watchers,
     reason |-> reason, level |-> level, que |-> que, head |-> head,
     msec |-> msec, pc |-> pc, result |-> result, confl |-> confl,
     que_tail |-> que_tail, checked_vars |-> checked_vars,
     current_level |-> current_level, learnt_clause |-> learnt_clause,
     backtrack_level |-> backtrack_level, same_level_cnt |-> same_level_cnt]

Fields(t) ==
    /\ n' = t.n
    /\ assigns' = t.assigns
    /\ clauses' = t.clauses
    /\ watchers' = t.watchers
    /\ reason' = t.reason
    /\ level' = t.level
    /\ que' = t.que
    /\ head' = t.head
    /\ msec' = t.msec
    /\ pc' = t.pc
    /\ result' = t.result
    /\ confl' = t.confl
    /\ que_tail' = t.que_tail
    /\ checked_vars' = t.checked_vars
    /\ current_level' = t.current_level
    /\ learnt_clause' = t.learnt_clause
    /\ backtrack_level' = t.backtrack_level
    /\ same_level_cnt' = t.same_level_cnt

\* The variables that the step from the current state to t has enqueued:
\* analyze enqueues the cut-point variable after it cancelled, propagate and
\* the decision only append to the trail.
Enqueued(t) ==
    IF pc = "learn"
    THEN {Back(t.que)}
    ELSE {t.que[i] : i \in (Len(que) + 1) .. Len(t.que)}

\* A step of solve: the solver changes, the formula it was built from does
\* not, and one more iteration has run.
Install(t) ==
    /\ steps < MaxSteps
    /\ Fields(t)
    /\ steps' = steps + 1
    /\ last_assign' = [v \in Var(n) |->
                          IF v \in Enqueued(t) THEN Some(t.assigns[v])
                          ELSE last_assign[v]]
    /\ UNCHANGED formula

-----------------------------------------------------------------------------
\* enqueue taking the level from the wrong end of the trail (front for back).
enqueue_front(s, var, assign, rsn) ==
    [s EXCEPT !.assigns[var] = assign,
              !.reason[var] = rsn,
              !.level[var] = IF s.que # <<>> THEN s.level[s.que[1]] ELSE 1,
              !.que = Append(s.que, var)]

\* Solver::enqueue
enqueue(s, var, assign, rsn) ==
    [s EXCEPT !.assigns[var] = assign,
              !.reason[var] = rsn,
              !.level[var] = IF s.que # <<>> THEN s.level[Back(s.que)] ELSE 1,
              !.que = Append(s.que, var)]

\* How many times literal l occurs in clause.
Occurrences(l, clause) == Cardinality({i \in 1 .. Len(clause) : clause[i] = l})

\* add_clause watching a clause without literals as well, under the literal
\* (0, true).
add_clause_watch_empty(s, clause) ==
    LET clause_idx == Len(s.clauses)
    IN  [s EXCEPT !.watchers = [l \in DOMAIN s.watchers |->
                                   s.watchers[l] \o
                                   [i \in 1 .. (IF clause = <<>> /\ l = <<0, TRUE>>
                                                THEN 1
                                                ELSE Occurrences(l, clause)) |->
                                       clause_idx]],
                  !.clauses = Append(s.clauses, clause)]

\* Solver::add_clause: the clause id is pushed once per literal occurrence.
add_clause(s, clause) ==
    LET clause_idx == Len(s.clauses)
    IN  [s EXCEPT !.watchers = [l \in DOMAIN s.watchers |->
                                   s.watchers[l] \o
                                   [i \in 1 .. Occurrences(l, clause) |-> clause_idx]],
                  !.clauses = Append(s.clauses, clause)]

RECURSIVE AddAll(_, _, _)
AddAll(s, cls, i) ==
    IF i > Len(cls) THEN s ELSE AddAll(add_clause(s, cls[i]), cls, i + 1)

\* Solver::new, followed by the entry of solve(limit).
new(k, cls, limit) ==
    AddAll([n |-> k,
            assigns |-> [v \in Var(k) |-> FALSE],
            clauses |-> <<>>,
            watchers |-> [l \in Lit(k) |-> <<>>],
            reason |-> [v \in Var(k) |-> None],
            level |-> [v \in Var(k) |-> 0],
            que |-> <<>>,
            head |-> 0,
            msec |-> limit,
            pc |-> "loop",
            result |-> None,
            confl |-> None,
            que_tail |-> 0,
            checked_vars |-> {},
            current_level |-> 0,
            learnt_clause |-> <<>>,
            backtrack_level |-> 0,
            same_level_cnt |-> 0],
           cls, 1)

-----------------------------------------------------------------------------
(* Solver::propagate *)

\* The scan without the swap of line 64: an unassigned literal is counted
\* and left where it is.
RECURSIVE scan_no_swap(_, _, _, _)
scan_no_swap(s, clause, c, cnt) ==
    IF c >= Len(clause)
    THEN [clause |-> clause, cnt |-> cnt, satisfied |-> FALSE]
    ELSE LET v == At(clause, c)[1]
             sign == At(clause, c)[2]
         IN  IF s.level[v] = 0
             THEN scan_no_swap(s, clause, c + 1, cnt + 1)
             ELSE IF s.assigns[v] = sign
                  THEN [clause |-> Swap(clause, c, 0), cnt |-> cnt, satisfied |-> TRUE]
                  ELSE scan_no_swap(s, clause, c + 1, cnt)

\* Lines 60-71: the scan of one watched clause from literal index c on.
\* Yields the reordered clause, the count of unassigned literals and whether
\* the scan left through `continue 'next_clause`.
RECURSIVE scan(_, _, _, _)
scan(s, clause, c, cnt) ==
    IF c >= Len(clause)
    THEN [clause |-> clause, cnt |-> cnt, satisfied |-> FALSE]
    ELSE LET v == At(clause, c)[1]
             sign == At(clause, c)[2]
         IN  IF s.level[v] = 0
             THEN scan(s, Swap(clause, c, 0), c + 1, cnt + 1)
             ELSE IF s.assigns[v] = sign
                  THEN [clause |-> Swap(clause, c, 0), cnt |-> cnt, satisfied |-> TRUE]
                  ELSE scan(s, clause, c + 1, cnt)

\* Lines 55-91: the loop over the watcher list, from its i-th element on.
\* `ok` records whether every debug_assert passed so far.
RECURSIVE for_watcher(_, _, _, _)
for_watcher(s, watcher, i, ok) ==
    IF i > Len(watcher)
    THEN [s |-> s, ok |-> ok]
    ELSE LET cr == watcher[i]
             r == scan(s, At(s.clauses, cr), 0, 0)
             s1 == [s EXCEPT !.clauses[cr + 1] = r.clause]
         IN  IF r.satisfied
             THEN for_watcher(s1, watcher, i + 1, ok)
             ELSE IF r.cnt = 0
                  THEN [s |-> [s1 EXCEPT !.confl = Some(cr), !.pc = "conflict"],
                        ok |-> ok]
                  ELSE IF r.cnt = 1
                       THEN LET var == At(r.clause, 0)[1]
                                sign == At(r.clause, 0)[2]
                            IN  for_watcher(enqueue(s1, var, sign, Some(cr)),
                                            watcher, i + 1,
                                            ok /\ s1.level[var] = 0)
                       ELSE for_watcher(s1, watcher, i + 1, ok)

\* Lines 60-71 again: the literals that line 61 reads, in the order of the
\* reads, for the scan of `clause` from index c on.
RECURSIVE scan_reads(_, _, _)
scan_reads(s, clause, c) ==
    IF c >= Len(clause)
    THEN <<>>
    ELSE LET v == At(clause, c)[1]
             sign == At(clause, c)[2]
         IN  <<At(clause, c)>> \o
             (IF s.level[v] = 0
              THEN scan_reads(s, Swap(clause, c, 0), c + 1)
              ELSE IF s.assigns[v] = sign
                   THEN <<>>
                   ELSE scan_reads(s, clause, c + 1))

\* Lines 55-91: the solver states in which the loop over the watcher list
\* starts the scan of its i-th, (i+1)-th, ... element: each is what the loop
\* body made of the one before; after `return Some(cr)` there is none.
RECURSIVE visits(_, _, _)
visits(s, watcher, i) ==
    IF i > Len(watcher) \/ s.pc = "conflict"
    THEN <<>>
    ELSE <<s>> \o visits(for_watcher(s, <<watcher[i]>>, 1, TRUE).s, watcher, i + 1)

\* propagate visiting the watchers of the literal that became true (the
\* negation in line 51 left out).
propagate_iter_true_lit(s) ==
    LET v == At(s.que, s.head)
        p == <<v, s.assigns[v]>>
        s1 == [s EXCEPT !.head = s.head + 1]
    IN  for_watcher(s1, s1.watchers[p], 1, TRUE)

\* Lines 47-93: one iteration of `while self.head < self.que.len()`.
\* The result stays at "propagate" or leaves with `return Some(cr)`.
propagate_iter(s) ==
    LET v == At(s.que, s.head)
        p == <<v, ~s.assigns[v]>>
        s1 == [s EXCEPT !.head = s.head + 1]
    IN  for_watcher(s1, s1.watchers[p], 1, TRUE)

-----------------------------------------------------------------------------
(* Solver::analyze *)

\* The loop over the literals with `<=` for the `<` of line 113: the
\* literals of the conflict level go to the learnt clause too.
RECURSIVE for_lits_le(_, _, _, _)
for_lits_le(s, clause, i, ok) ==
    IF i > Len(clause)
    THEN [s |-> s, ok |-> ok]
    ELSE LET p == clause[i]
             var == p[1]
         IN  IF var \in s.checked_vars
             THEN for_lits_le(s, clause, i + 1, ok)
             ELSE LET s1 == [s EXCEPT !.checked_vars = @ \cup {var}]
                      ok1 == ok /\ s.level[var] <= s.current_level
                  IN  IF s.level[var] <= s.current_level
                      THEN for_lits_le([s1 EXCEPT
                                           !.learnt_clause = Append(@, p),
                                           !.backtrack_level = Max(@, s.level[var])],
                                       clause, i + 1, ok1)
                      ELSE for_lits_le([s1 EXCEPT !.same_level_cnt = @ + 1],
                                       clause, i + 1, ok1)

\* Lines 106-119: the loop over the literals of clauses[confl].
RECURSIVE for_lits(_, _, _, _)
for_lits(s, clause, i, ok) ==
    IF i > Len(clause)
    THEN [s |-> s, ok |-> ok]
    ELSE LET p == clause[i]
             var == p[1]
         IN  IF var \in s.checked_vars
             THEN for_lits(s, clause, i + 1, ok)
             ELSE LET s1 == [s EXCEPT !.checked_vars = @ \cup {var}]
                      ok1 == ok /\ s.level[var] <= s.current_level
                  IN  IF s.level[var] < s.current_level
                      THEN for_lits([s1 EXCEPT
                                        !.learnt_clause = Append(@, p),
                                        !.backtrack_level = Max(@, s.level[var])],
                                    clause, i + 1, ok1)
                      ELSE for_lits([s1 EXCEPT !.same_level_cnt = @ + 1],
                                    clause, i + 1, ok1)

\* The tail loop of line 122 with its `!` dropped: it moves back over the
\* checked variables and stops at one that is not checked.
RECURSIVE find_tail_inverted(_, _)
find_tail_inverted(s, t) ==
    IF At(s.que, t) \notin s.checked_vars THEN t
    ELSE IF t = 0 THEN -1
    ELSE find_tail_inverted(s, t - 1)

\* Lines 122-124: move the tail pointer back to a checked variable.  -1 stands
\* for `que_tail -= 1` at 0, which panics (overflow check, or the index that
\* follows it).
RECURSIVE find_tail(_, _)
find_tail(s, t) ==
    IF At(s.que, t) \in s.checked_vars THEN t
    ELSE IF t = 0 THEN -1
    ELSE find_tail(s, t - 1)

\* Lines 98-104: the entry of analyze.
analyze_entry(s) ==
    [s EXCEPT !.que_tail = Len(s.que) - 1,
              !.checked_vars = {},
              !.current_level = s.level[Back(s.que)],
              !.learnt_clause = <<>>,
              !.backtrack_level = 1,
              !.same_level_cnt = 0,
              !.pc = "analyze"]

\* analyze's loop without `same_level_cnt -= 1` (line 126).
analyze_iter_no_decrement(s) ==
    LET r == for_lits(s, At(s.clauses, Unwrap(s.confl)), 1, TRUE)
        s1 == r.s
        t == find_tail(s1, s1.que_tail)
    IN  IF t < 0
        THEN [s |-> [s1 EXCEPT !.pc = "panic"], ok |-> r.ok]
        ELSE LET s2 == [s1 EXCEPT !.que_tail = t]
             IN  IF s2.same_level_cnt <= 1
                 THEN [s |-> [s2 EXCEPT !.pc = "learn"], ok |-> r.ok]
                 ELSE IF s2.reason[At(s2.que, t)] = None
                      THEN [s |-> [s2 EXCEPT !.pc = "panic"], ok |-> r.ok]
                      ELSE [s |-> [s2 EXCEPT !.confl = s2.reason[At(s2.que, t)]],
                            ok |-> r.ok]

\* Lines 105-133: one iteration of `loop`.
analyze_iter(s) ==
    LET r == for_lits(s, At(s.clauses, Unwrap(s.confl)), 1, TRUE)
        s1 == r.s
        t == find_tail(s1, s1.que_tail)
    IN  IF t < 0
        THEN [s |-> [s1 EXCEPT !.pc = "panic"], ok |-> r.ok]
        ELSE LET s2 == [s1 EXCEPT !.que_tail = t, !.same_level_cnt = @ - 1]
             IN  IF s2.same_level_cnt <= 1
                 THEN [s |-> [s2 EXCEPT !.pc = "learn"], ok |-> r.ok]
                 ELSE IF s2.reason[At(s2.que, t)] = None
                      THEN [s |-> [s2 EXCEPT !.pc = "panic"], ok |-> r.ok]
                      ELSE [s |-> [s2 EXCEPT !.confl = s2.reason[At(s2.que, t)]],
                            ok |-> r.ok]

\* cancel popping the entries without `self.level[p] = 0` (line 140).
RECURSIVE cancel_keep_level(_)
cancel_keep_level(s) ==
    IF s.que # <<>> /\ s.level[Back(s.que)] > s.backtrack_level
    THEN cancel_keep_level([s EXCEPT !.que = SubSeq(s.que, 1, Len(s.que) - 1)])
    ELSE s

\* cancel with `>=` for the `>` of line 139: it pops the backtrack level too.
RECURSIVE cancel_inclusive(_)
cancel_inclusive(s) ==
    IF s.que # <<>> /\ s.level[Back(s.que)] >= s.backtrack_level
    THEN cancel_inclusive([s EXCEPT !.level[Back(s.que)] = 0,
                                    !.que = SubSeq(s.que, 1, Len(s.que) - 1)])
    ELSE s

\* Lines 138-145: cancel the trail entries above the backtrack level.
RECURSIVE cancel(_)
cancel(s) ==
    IF s.que # <<>> /\ s.level[Back(s.que)] > s.backtrack_level
    THEN cancel([s EXCEPT !.level[Back(s.que)] = 0,
                          !.que = SubSeq(s.que, 1, Len(s.que) - 1)])
    ELSE s

\* The cursor reset of line 148 pointing past the asserted entry.
assert_learnt_past(s, p) ==
    LET s1 == enqueue(s, p, ~s.assigns[p], Some(Len(s.clauses)))
    IN  [s1 EXCEPT !.head = Len(s1.que)]

\* The asserted literal given the newest existing clause as its reason, not
\* the learnt clause that line 149 is about to add.
assert_learnt_last_clause(s, p) ==
    LET s1 == enqueue(s, p, ~s.assigns[p], Some(Len(s.clauses) - 1))
    IN  [s1 EXCEPT !.head = Len(s1.que) - 1]

\* Lines 147-148: assert the cut-point literal and reset the cursor.
assert_learnt(s, p) ==
    LET s1 == enqueue(s, p, ~s.assigns[p], Some(Len(s.clauses)))
    IN  [s1 EXCEPT !.head = Len(s1.que) - 1]

\* Lines 134-149: the tail of analyze; solve then loops.
analyze_exit(s) ==
    LET p == At(s.que, s.que_tail)
        s1 == [s EXCEPT !.learnt_clause = Append(@, <<p, ~s.assigns[p]>>)]
        s2 == assert_learnt(cancel(s1), p)
    IN  [add_clause(s2, s2.learnt_clause) EXCEPT !.pc = "loop"]

-----------------------------------------------------------------------------
(* Solver::solve *)

\* The deadline poll without the `if let Some(msec)` around it.
check_time_always(s, exceeded) ==
    IF exceeded
    THEN [s EXCEPT !.result = Some(FALSE), !.pc = "done"]
    ELSE [s EXCEPT !.pc = "propagate"]

\* Lines 173-178: the deadline poll; `exceeded` is what the clock says.
check_time(s, exceeded) ==
    IF s.msec # None /\ exceeded
    THEN [s EXCEPT !.result = Some(FALSE), !.pc = "done"]
    ELSE [s EXCEPT !.pc = "propagate"]

\* Lines 179-185: propagate returned Some(confl).
on_conflict(s) ==
    IF s.level[Back(s.que)] = 1
    THEN [s EXCEPT !.result = Some(FALSE), !.pc = "done"]
    ELSE analyze_entry(s)

\* The scan of lines 190-195 stopping one variable short (0..n-1).
Unassigned_short(s) == {v \in Var(s.n - 1) : s.level[v] = 0}

\* Lines 189-195: the first variable that is not decided yet.
Unassigned(s) == {v \in Var(s.n) : s.level[v] = 0}
select(s) == CHOOSE v \in Unassigned(s) : \A w \in Unassigned(s) : v <= w

\* The decision without `self.level[p] += 1` (line 199).
decide_same_level(s) ==
    IF Unassigned(s) # {}
    THEN LET p == select(s)
             s1 == enqueue(s, p, s.assigns[p], None)
         IN  [s1 EXCEPT !.pc = "loop"]
    ELSE [s EXCEPT !.result = Some(TRUE), !.pc = "done"]

\* The decision branching on false whatever the assigns field holds.
decide_false(s) ==
    IF Unassigned(s) # {}
    THEN LET p == select(s)
             s1 == enqueue(s, p, FALSE, None)
         IN  [s1 EXCEPT !.level[p] = @ + 1, !.pc = "loop"]
    ELSE [s EXCEPT !.result = Some(TRUE), !.pc = "done"]

\* Lines 186-203: propagate returned None.
decide(s) ==
    IF Unassigned(s) # {}
    THEN LET p == select(s)
             s1 == enqueue(s, p, s.assigns[p], None)
         IN  [s1 EXCEPT !.level[p] = @ + 1, !.pc = "loop"]
    ELSE [s EXCEPT !.result = Some(TRUE), !.pc = "done"]

-----------------------------------------------------------------------------
\* A step that ran debug_assert!s: a build without debug assertions goes on
\* whatever they say, a build with them panics when one fails.
Asserted(r) ==
    \/ Install(r.s)
    \/ /\ ~r.ok
       /\ Install([Self EXCEPT !.pc = "panic"])

\* The top of solve's loop.  The clock is not the program's: whether the
\* elapsed time exceeds the limit is any of the two answers.
CheckTime ==
    /\ pc = "loop"
    /\ \E exceeded \in BOOLEAN : Install(check_time(Self, exceeded))

Propagate ==
    /\ pc = "propagate"
    /\ head < Len(que)
    /\ Asserted(propagate_iter(Self))

ReturnUnsat ==
    /\ pc = "conflict"
    /\ level[Back(que)] = 1
    /\ Install(on_conflict(Self))

Analyze ==
    /\ pc = "conflict"
    /\ level[Back(que)] # 1
    /\ Install(on_conflict(Self))

AnalyzeLoop ==
    /\ pc = "analyze"
    /\ Asserted(analyze_iter(Self))

Learn ==
    /\ pc = "learn"
    /\ Install(analyze_exit(Self))

Decide ==
    /\ pc = "propagate"
    /\ head >= Len(que)
    /\ Unassigned(Self) # {}
    /\ Install(decide(Self))

ReturnSat ==
    /\ pc = "propagate"
    /\ head >= Len(que)
    /\ Unassigned(Self) = {}
    /\ Install(decide(Self))

-----------------------------------------------------------------------------
\* The inputs: every clause list over k variables within the bounds.
ClausesOf(k, minLen) == UNION {[1 .. m -> Lit(k)] : m \in minLen .. MaxLen}
Formulas(k, minLen) == UNION {[1 .. m -> ClausesOf(k, minLen)] : m \in 0 .. MaxClauses}

StartAt(t, cls) ==
    /\ formula = cls
    /\ n = t.n
    /\ assigns = t.assigns
    /\ clauses = t.clauses
    /\ watchers = t.watchers
    /\ reason = t.reason
    /\ level = t.level
    /\ que = t.que
    /\ head = t.head
    /\ msec = t.msec
    /\ pc = t.pc
    /\ result = t.result
    /\ confl = t.confl
    /\ que_tail = t.que_tail
    /\ checked_vars = t.checked_vars
    /\ current_level = t.current_level
    /\ learnt_clause = t.learnt_clause
    /\ backtrack_level = t.backtrack_level
    /\ same_level_cnt = t.same_level_cnt
    /\ steps = 0
    /\ last_assign = [v \in Var(t.n) |-> None]

Start(k, cls, limit) == StartAt(new(k, cls, limit), cls)

\* Clauses over k variables that name each variable at most once, in order.
PlainClauses(k) ==
    {c \in UNION {[1 .. m -> Lit(k)] : m \in 1 .. k} :
        \A i \in 1 .. Len(c) - 1 : c[i][1] < c[i + 1][1]}
PlainFormulas(k) == UNION {[1 .. m -> PlainClauses(k)] : m \in 0 .. MaxClauses}

\* Option<u64>: the limit's value does not matter to a clock that may say
\* anything.
TimeLimits == {None, Some(1)}

\* The formulas without empty clauses, each with its number of variables.
Inputs ==
    UNION {{k} \X Formulas(k, 1) : k \in 1 .. NumVars}
        \cup ({WideVars} \X PlainFormulas(WideVars))

\* solve(None) on formulas without empty clauses.
Init == \E in \in Inputs : Start(in[1], in[2], None)

\* solve(msec) with and without a time limit.
InitT ==
    \E k \in 1 .. NumVars : \E cls \in Formulas(k, 1) :
        \E limit \in TimeLimits : Start(k, cls, limit)

\* solve(None) on formulas that may hold empty clauses.
InitE == \E k \in 1 .. NumVars : \E cls \in Formulas(k, 0) : Start(k, cls, None)

Next ==
    \/ CheckTime
    \/ Propagate
    \/ ReturnUnsat
    \/ Analyze
    \/ AnalyzeLoop
    \/ Learn
    \/ Decide
    \/ ReturnSat

Spec == Init /\ [][Next]_vars
SpecT == InitT /\ [][Next]_vars
SpecE == InitE /\ [][Next]_vars


-----------------------------------------------------------------------------
\* solve from state s to its return (or panic), on a build without debug
\* assertions and a clock that never exceeds the limit.
step(s) ==
    CASE s.pc = "loop" -> check_time(s, FALSE)
      [] s.pc = "propagate" ->
            IF s.head < Len(s.que) THEN propagate_iter(s).s ELSE decide(s)
      [] s.pc = "conflict" -> on_conflict(s)
      [] s.pc = "analyze" -> analyze_iter(s).s
      [] s.pc = "learn" -> analyze_exit(s)

RECURSIVE run(_)
run(s) == IF s.pc \in {"done", "panic"} THEN s ELSE run(step(s))

\* Truth assignments and what they satisfy.
Assignments(k) == [Var(k) -> BOOLEAN]
Satisfies(a, clause) == \E i \in 1 .. Len(clause) : a[clause[i][1]] = clause[i][2]
Models(k, cls) ==
    {a \in Assignments(k) : \A i \in 1 .. Len(cls) : Satisfies(a, cls[i])}

\* The clauses analyze has added so far.
Learnt == {i \in 1 .. Len(clauses) : i > Len(formula)}

-----------------------------------------------------------------------------
Satisfiable == Models(n, formula) # {}

\* solve is inside one of its loops.  With steps < MaxSteps one of the actions
\* is then enabled: CheckTime at "loop"; Propagate, Decide or ReturnSat at
\* "propagate"; ReturnUnsat or Analyze at "conflict"; AnalyzeLoop at "analyze";
\* Learn at "learn".
Running == pc \in {"loop", "propagate", "conflict", "analyze", "learn"}

\* C1 (soundness): when solve(None) has returned true, every variable is
\* assigned (level # 0) and every clause given to new has a literal (v, s)
\* with assigns[v] = s.
Soundness ==
    result = Some(TRUE) =>
        /\ \A v \in Var(n) : level[v] # 0
        /\ \A i \in 1 .. Len(formula) : Satisfies(assigns, formula[i])

\* solve returned true after learning a clause, on a formula of several clauses.
SoundnessWitness ==
    /\ result = Some(TRUE)
    /\ Learnt # {}
    /\ Len(formula) >= 2

\* C2: without a time limit solve returns false only on an unsatisfiable
\* formula.
FalseOnlyIfUnsat == result = Some(FALSE) => ~Satisfiable

\* C3 (completeness): on an unsatisfiable formula solve(None) never returns
\* true and does return false: it does not panic, it goes on until it
\* returns (within MaxSteps iterations), and what it returns is false.
UnsatReturnsFalse ==
    ~Satisfiable =>
        /\ result # Some(TRUE)
        /\ IF pc = "done" THEN result = Some(FALSE) ELSE Running /\ steps < MaxSteps

\* The spec's scenario: n = 1 with the unit clauses x0 and not x0.
UnsatReturnsFalseWitness ==
    /\ n = 1
    /\ formula = << << <<0, TRUE>> >>, << <<0, FALSE>> >> >>
    /\ result = Some(FALSE)

\* C4 (termination): solve(None) returns on every formula: in every state
\* short of its return it is inside one of its loops, not in a panic, and has
\* run fewer than MaxSteps iterations, so that it takes one more; no run has
\* more than MaxSteps of them.
Termination == pc # "done" => (Running /\ steps < MaxSteps)

\* solve returned after several conflicts on a formula over WideVars variables.
TerminationWitness ==
    /\ pc = "done"
    /\ Cardinality(Learnt) >= 2
    /\ n = WideVars

\* C5 (unit-clause forcing): the variable of a unit clause (v, s) of the
\* formula is never assigned not-s by a decision.
UnitForcing ==
    \A i \in 1 .. Len(formula) :
        Len(formula[i]) = 1 =>
            LET v == formula[i][1][1]
                sign == formula[i][1][2]
            IN  (level[v] # 0 /\ reason[v] = None) => assigns[v] = sign

\* The formula without its empty clauses.
WithoutEmpty(cls) == SelectSeq(cls, LAMBDA c : c # <<>>)

\* C6: an empty clause is watched under no literal and is never the conflict
\* propagate returns (nor the clause analyze resolves with); when solve(None)
\* has returned, solve(None) on the formula without its empty clauses returns
\* the same boolean and leaves the same assignment.
EmptyClauseInvisible ==
    /\ \A l \in Lit(n) : \A i \in 1 .. Len(watchers[l]) :
          At(clauses, watchers[l][i]) # <<>>
    /\ confl # None => At(clauses, Unwrap(confl)) # <<>>
    /\ pc = "done" =>
          LET t == run(new(n, WithoutEmpty(formula), None))
          IN  /\ t.pc = "done"
              /\ t.result = result
              /\ t.assigns = assigns

\* solve returned, after a conflict, on a formula with an empty clause before
\* a clause that has literals.
EmptyClauseInvisibleWitness ==
    /\ pc = "done"
    /\ Learnt # {}
    /\ \E i \in 1 .. Len(formula) : \E j \in i + 1 .. Len(formula) :
          formula[i] = <<>> /\ formula[j] # <<>>

\* C7 (time limit): the steps around the deadline poll.  A step from the top
\* of solve's loop changes nothing of the solver and either enters propagate
\* or returns false, the latter only when a limit was given; propagate is
\* entered from nowhere else, and a decision or the end of analyze lead back to
\* the poll; every other return comes from a conflict or a full assignment.
TimeLimitPoll ==
    [][/\ pc = "loop" =>
            /\ pc' \in {"propagate", "done"}
            /\ UNCHANGED <<n, assigns, clauses, watchers, reason, level, que, head>>
            /\ pc' = "done" => (msec # None /\ result' = Some(FALSE))
       /\ (pc' = "propagate" /\ pc # "propagate") => pc = "loop"
       /\ pc = "learn" => pc' = "loop"
       /\ (pc = "propagate" /\ Len(que') > Len(que) /\ reason'[Back(que')] = None)
             => pc' = "loop"
       /\ (pc' = "done" /\ pc # "loop") =>
             \/ pc = "conflict" /\ result' = Some(FALSE)
             \/ pc = "propagate" /\ result' = Some(TRUE)
      ]_vars

\* solve returned false on a satisfiable formula while the trail stood above
\* the base level: the limit was exceeded at a poll after a decision.
TimeLimitPollWitness ==
    /\ pc = "done"
    /\ msec # None
    /\ result = Some(FALSE)
    /\ Satisfiable
    /\ que # <<>>
    /\ level[Back(que)] >= 2

\* C8: every model of the formula satisfies every clause analyze added.
LearntEntailed ==
    \A a \in Models(n, formula) : \A i \in Learnt : Satisfies(a, clauses[i])

\* C9 (asserting learnt clause): the step that ends analyze leaves the
\* cut-point variable p as the last trail entry with head at its index,
\* assigns[p] negated, reason[p] the id of the one clause the step appended;
\* that clause holds the literal (p, assigns[p]) and each of its other literals
\* is assigned, false, and at a level <= level[p].
AssertingLearnt ==
    [][(pc = "learn" /\ pc' = "loop") =>
          LET p == At(que, que_tail)
              learnt == Back(clauses')
          IN  /\ que' # <<>>
              /\ Back(que') = p
              /\ head' = Len(que') - 1
              /\ assigns'[p] = ~assigns[p]
              /\ Len(clauses') = Len(clauses) + 1
              /\ reason'[p] = Some(Len(clauses))
              /\ \E i \in 1 .. Len(learnt) : learnt[i] = <<p, assigns'[p]>>
              /\ \A i \in 1 .. Len(learnt) :
                    learnt[i] # <<p, assigns'[p]>> =>
                        /\ level'[learnt[i][1]] # 0
                        /\ assigns'[learnt[i][1]] # learnt[i][2]
                        /\ level'[learnt[i][1]] <= level'[p]
      ]_vars

\* analyze has just returned, with a learnt clause of several literals.
AssertingLearntWitness ==
    /\ pc = "loop"
    /\ Learnt # {}
    /\ que # <<>>
    /\ reason[Back(que)] = Some(Len(clauses) - 1)
    /\ head = Len(que) - 1
    /\ Len(Back(clauses)) >= 2

\* C10 (monotonic trail levels): the levels of the trail entries are >= 1 and
\* never decrease from the oldest entry to the newest.
TrailLevelsMonotonic ==
    \A i \in 1 .. Len(que) :
        /\ level[que[i]] >= 1
        /\ \A j \in i .. Len(que) : level[que[i]] <= level[que[j]]

\* A trail that spans several levels, after a backjump.
TrailLevelsMonotonicWitness ==
    /\ Len(que) >= 3
    /\ level[que[1]] < level[Back(que)]
    /\ Learnt # {}

\* C11 (trail and levels): between the steps of solve a variable has level 0
\* exactly when it is not on the trail, and no variable is on the trail twice.
TrailIsAssigned ==
    /\ \A v \in Var(n) : (level[v] = 0) <=> ~\E i \in 1 .. Len(que) : que[i] = v
    /\ \A i, j \in 1 .. Len(que) : que[i] = que[j] => i = j

\* analyze has popped the cut-point variable with others and put it back: it
\* is the newest trail entry, and a popped variable is still off the trail.
TrailIsAssignedWitness ==
    /\ pc = "loop"
    /\ Learnt # {}
    /\ Len(que) >= 2
    /\ reason[Back(que)] = Some(Len(clauses) - 1)
    /\ \E v \in Var(n) : level[v] = 0 /\ reason[v] # None

\* C12 (reason invariant): for every trail variable v whose reason is Some(c),
\* clause c (original or learnt) contains the literal (v, assigns[v]) and
\* every other literal of c is of a variable strictly earlier in the trail.
ReasonInvariant ==
    \A i \in 1 .. Len(que) :
        reason[que[i]] # None =>
            LET v == que[i]
                c == Unwrap(reason[v])
            IN  /\ c < Len(clauses)
                /\ \E k \in 1 .. Len(At(clauses, c)) :
                      At(clauses, c)[k] = <<v, assigns[v]>>
                /\ \A k \in 1 .. Len(At(clauses, c)) :
                      At(clauses, c)[k] # <<v, assigns[v]>> =>
                          \E j \in 1 .. (i - 1) : que[j] = At(clauses, c)[k][1]

\* The trail holds a variable forced by an original clause of several
\* literals and one asserted by a learnt clause of several literals.
ReasonInvariantWitness ==
    /\ \E i \in 1 .. Len(que) :
          /\ reason[que[i]] # None
          /\ Unwrap(reason[que[i]]) < Len(formula)
          /\ Len(At(clauses, Unwrap(reason[que[i]]))) >= 2
    /\ \E i \in 1 .. Len(que) :
          /\ reason[que[i]] # None
          /\ Unwrap(reason[que[i]]) >= Len(formula)
          /\ Len(At(clauses, Unwrap(reason[que[i]]))) >= 2

\* C13 (unwrap in analyze): in analyze the tail pointer is an index of the
\* trail and the loop of lines 122-124 never takes it below 0; when the loop
\* of analyze does not stop at line 128, reason[que[que_tail]] is Some, so
\* the unwrap of line 132 does not fail.
UnwrapNeverFails ==
    /\ pc \in {"analyze", "learn"} => que_tail \in 0 .. (Len(que) - 1)
    /\ pc = "analyze" =>
          LET s1 == for_lits(Self, At(clauses, Unwrap(confl)), 1, TRUE).s
              t == find_tail(s1, que_tail)
          IN  /\ t >= 0
              /\ s1.same_level_cnt - 1 > 1 => reason[At(que, t)] # None
              /\ analyze_iter(Self).s.pc # "panic"

\* analyze is in a later iteration of its loop: line 132 has unwrapped the
\* reason of the variable under the tail pointer.
UnwrapNeverFailsWitness ==
    /\ pc = "analyze"
    /\ checked_vars # {}
    /\ confl = reason[At(que, que_tail)]
    /\ same_level_cnt > 1

\* C14 (backtracking): the backtrack level b that analyze computes is at
\* least 1 and below the conflict level.  When analyze returns, exactly the
\* trail entries whose level was above b are gone (the cut-point variable
\* is then put back at the end); the entries that stay are a prefix of the
\* old trail with their values, levels and reasons unchanged; every removed
\* variable but the cut-point has level 0 and keeps its assigns and reason.
Backtracking ==
    [][pc = "learn" =>
          LET b == backtrack_level
              p == At(que, que_tail)
              keep == SelectSeq(que, LAMBDA v : level[v] <= b)
          IN  /\ 1 <= b
              /\ b < level[Back(que)]
              /\ current_level = level[Back(que)]
              /\ keep = SubSeq(que, 1, Len(keep))
              /\ que' = Append(keep, p)
              /\ \A i \in 1 .. Len(keep) :
                    /\ level'[keep[i]] = level[keep[i]]
                    /\ assigns'[keep[i]] = assigns[keep[i]]
                    /\ reason'[keep[i]] = reason[keep[i]]
              /\ \A i \in 1 .. Len(que) :
                    (level[que[i]] > b /\ que[i] # p) =>
                        /\ level'[que[i]] = 0
                        /\ assigns'[que[i]] = assigns[que[i]]
                        /\ reason'[que[i]] = reason[que[i]]
      ]_vars

\* analyze has returned to a level above the base level: entries stayed on
\* the trail, and a variable that was assigned before is off the trail.
BacktrackingWitness ==
    /\ pc = "loop"
    /\ Learnt # {}
    /\ Len(que) >= 2
    /\ reason[Back(que)] = Some(Len(clauses) - 1)
    /\ level[Back(que)] >= 2
    /\ \E v \in Var(n) : level[v] = 0 /\ last_assign[v] # None

\* C15 (decision rule): a variable is enqueued with reason None only by the
\* step that follows propagate returning None (the cursor at the end of the
\* trail, no conflict).  That step takes the smallest variable of level 0,
\* keeps the value of its assigns field (false if the variable was never
\* assigned, else the value of its latest assignment), and gives it the
\* level of the previous trail tail plus one (the base level 1 plus one on
\* an empty trail).
DecisionRule ==
    [][(que' # que /\ que' # <<>> /\ reason'[Back(que')] = None) =>
          LET p == Back(que')
          IN  /\ pc = "propagate"
              /\ head = Len(que)
              /\ que' = Append(que, p)
              /\ level[p] = 0
              /\ \A v \in Var(n) : level[v] = 0 => p <= v
              /\ assigns'[p] = assigns[p]
              /\ assigns[p] = (IF last_assign[p] = None THEN FALSE
                               ELSE Unwrap(last_assign[p]))
              /\ level'[p] = (IF que = <<>> THEN 1 ELSE level[Back(que)]) + 1
      ]_vars

\* A decision has just branched on true: the variable had been asserted
\* true by a learnt clause and was cancelled since.
DecisionRuleWitness ==
    /\ pc = "loop"
    /\ que # <<>>
    /\ reason[Back(que)] = None
    /\ assigns[Back(que)] = TRUE
    /\ head = Len(que) - 1

\* C16 (unit propagation): in propagate, whenever the scan of a watched
\* clause ends with one unassigned literal counted and no satisfied literal,
\* slot 0 of the clause holds that literal and no other slot holds an
\* unassigned one (the debug_assert of line 77 holds); the scan has read
\* every literal of the clause exactly once although it swaps while it
\* iterates (the reads are the clause as it was, the clause afterwards is
\* a rearrangement of it); the variable of slot 0 is appended to the trail
\* with the literal's polarity, the clause as its reason and the level of
\* the previous trail tail.
UnitPropagation ==
    (pc = "propagate" /\ head < Len(que)) =>
        LET v == At(que, head)
            s0 == [Self EXCEPT !.head = head + 1]
            watcher == watchers[<<v, ~assigns[v]>>]
            vs == visits(s0, watcher, 1)
        IN  \A i \in 1 .. Len(vs) :
                LET s == vs[i]
                    cr == watcher[i]
                    clause == At(s.clauses, cr)
                    r == scan(s, clause, 0, 0)
                    t == for_watcher(s, <<cr>>, 1, TRUE)
                    var == At(r.clause, 0)[1]
                    sign == At(r.clause, 0)[2]
                IN  (~r.satisfied /\ r.cnt = 1) =>
                        /\ s.level[var] = 0
                        /\ \A k \in 2 .. Len(r.clause) : s.level[r.clause[k][1]] # 0
                        /\ t.ok
                        /\ scan_reads(s, clause, 0) = clause
                        /\ \A l \in Lit(n) :
                              Occurrences(l, r.clause) = Occurrences(l, clause)
                        /\ t.s.que = Append(s.que, var)
                        /\ t.s.assigns[var] = sign
                        /\ t.s.reason[var] = Some(cr)
                        /\ t.s.level[var] = s.level[Back(s.que)]
                        /\ t.s.clauses = [s.clauses EXCEPT ![cr + 1] = r.clause]

\* propagate has just forced a variable through a clause of several literals
\* whose unassigned literal the scan moved to slot 0 from a later slot.
UnitPropagationWitness ==
    /\ pc = "propagate"
    /\ que # <<>>
    /\ reason[Back(que)] # None
    /\ Unwrap(reason[Back(que)]) < Len(formula)
    /\ LET c == Unwrap(reason[Back(que)])
       IN  /\ Len(At(clauses, c)) >= 2
           /\ At(clauses, c) # formula[c + 1]
           /\ At(clauses, c)[1] = <<Back(que), assigns[Back(que)]>>

\* C17 (propagation fixpoint): whenever propagate returns None the cursor
\* is at the end of the trail, no clause with at least one literal (original
\* or learnt) has all its literals false, and no clause over pairwise
\* distinct variables has exactly one unassigned literal while all its
\* other literals are false.
PropagationFixpoint ==
    (pc = "propagate" /\ head >= Len(que)) =>
        /\ head = Len(que)
        /\ \A c \in 1 .. Len(clauses) :
              LET cl == clauses[c]
                  unassigned == {k \in 1 .. Len(cl) : level[cl[k][1]] = 0}
                  false == {k \in 1 .. Len(cl) :
                               level[cl[k][1]] # 0 /\ assigns[cl[k][1]] # cl[k][2]}
                  distinct == \A j, k \in 1 .. Len(cl) : cl[j][1] = cl[k][1] => j = k
              IN  /\ cl # <<>> => Cardinality(false) < Len(cl)
                  /\ distinct =>
                        ~(Cardinality(unassigned) = 1
                            /\ Cardinality(false) = Len(cl) - 1)

\* C18 (level structure): a trail entry with reason None (a decision) has
\* level >= 2, is the first trail entry of its level and the only decision
\* of that level; every entry of level 1 has a reason clause; of the levels
\* on the trail, each one above 2 has the level below it on the trail too.
\* So a decision on an empty trail is at level 2, and analyze runs only
\* with a conflict level >= 2.
LevelStructure ==
    /\ \A i \in 1 .. Len(que) :
          reason[que[i]] = None =>
              /\ level[que[i]] >= 2
              /\ i = 1 => level[que[i]] = 2
              /\ \A j \in 1 .. (i - 1) : level[que[j]] < level[que[i]]
              /\ \A j \in 1 .. Len(que) :
                    (level[que[j]] = level[que[i]] /\ reason[que[j]] = None) => j = i
    /\ \A i \in 1 .. Len(que) : level[que[i]] = 1 => reason[que[i]] # None
    /\ \A i \in 1 .. Len(que) :
          level[que[i]] >= 3 =>
              \E j \in 1 .. Len(que) : level[que[j]] = level[que[i]] - 1
    /\ pc \in {"analyze", "learn"} =>
          /\ current_level = level[Back(que)]
          /\ current_level >= 2

\* A trail with an entry of level 1 and decisions at the levels 2 and 3.
LevelStructureWitness ==
    /\ Len(que) >= 3
    /\ level[que[1]] = 1
    /\ \E i, j \in 1 .. Len(que) :
          /\ reason[que[i]] = None /\ level[que[i]] = 2
          /\ reason[que[j]] = None /\ level[que[j]] = 3

\* C19 (cut point): the conflicting clause that analyze is given contains a
\* variable of the conflict level.  The first iteration of analyze's loop
\* leaves the tail pointer at the latest trail entry among the variables of
\* that clause, and no later iteration moves it; so the cut-point variable p
\* is that variable, and the only reason clause that a later iteration
\* visits is reason[p].  Each iteration adds to the learnt clause the
\* literals of the visited clause whose variables are new and below the
\* conflict level; the clause that analyze adds is these literals followed
\* by the one literal of a conflict-level variable, p's.
CutPoint ==
    [][/\ pc = "analyze" =>
             LET cl == At(clauses, Unwrap(confl))
                 occurs(t) == \E k \in 1 .. Len(cl) : cl[k][1] = At(que, t)
                 fresh(k) == /\ cl[k][1] \notin checked_vars
                             /\ \A j \in 1 .. (k - 1) : cl[j][1] # cl[k][1]
                             /\ level[cl[k][1]] < current_level
                 idx == SelectSeq([k \in 1 .. Len(cl) |-> k], fresh)
             IN  /\ checked_vars = {} =>
                       /\ \E k \in 1 .. Len(cl) : level[cl[k][1]] = current_level
                       /\ que_tail' \in 0 .. (Len(que) - 1)
                       /\ occurs(que_tail')
                       /\ \A t \in (que_tail' + 1) .. (Len(que) - 1) : ~occurs(t)
                 /\ checked_vars # {} =>
                       /\ que_tail' = que_tail
                       /\ confl = reason[At(que, que_tail)]
                 /\ pc' = "analyze" => confl' = reason[At(que, que_tail')]
                 /\ level[At(que, que_tail')] = current_level
                 /\ learnt_clause' = learnt_clause \o [j \in 1 .. Len(idx) |-> cl[idx[j]]]
       /\ pc = "learn" =>
             LET p == At(que, que_tail)
             IN  /\ level[p] = current_level
                 /\ Back(clauses') = Append(learnt_clause, <<p, ~assigns[p]>>)
                 /\ \A k \in 1 .. Len(learnt_clause) :
                       /\ level[learnt_clause[k][1]] < current_level
                       /\ level[learnt_clause[k][1]] # 0
      ]_vars

\* analyze's loop has stopped in a later iteration, which visited reason[p],
\* with the tail pointer where the first iteration left it.
CutPointWitness ==
    /\ pc = "learn"
    /\ confl = reason[At(que, que_tail)]
    /\ Cardinality(checked_vars) >= 3

====
